---- MODULE Spec2Model ----
(***************************************************************************)
(* Adaptive Gauss-Kronrod quadrature of classylss/_gcl (Quadrature.inl):   *)
(* GKWorkspace::Integrate, the free functions Integrate / Integrate<Sub>   *)
(* and the WorkspaceManager pool they borrow their workspace from.         *)
(*                                                                         *)
(* Arithmetic is exact (integers).  Abscissas live on an integer grid of   *)
(* Width cells, so every midpoint 0.5*(a+b) the model takes is an integer. *)
(* A relative tolerance epsrel is carried as the integer k with            *)
(* epsrel = k * DBL_EPSILON, and DBL_EPSILON is 1/EpsInv.                  *)
(***************************************************************************)
EXTENDS Integers, Sequences, FiniteSets, TLC

(* ---------------------------------------------------------------------- *)
(* Bounds of the model                                                     *)
(* ---------------------------------------------------------------------- *)
\* largest limit given to a caller-constructed GKWorkspace(limit); also the
\* cap on the loop iterations the model follows in one call
MaxLimit == 3
\* the largest error estimate the fixed rule gives one subinterval
MaxErr == 2
\* deepest nesting of Integrate calls (the integrand calling Integrate)
MaxDepth == 2
\* top-level calls in a behaviour that compares calls
MaxCalls == 2
\* 1/DBL_EPSILON of the model's arithmetic (a coarse floating-point
\* resolution, so that the roundoff test of line 153 is met after two
\* bisections instead of forty-six)
EpsInv == 200

(* ---------------------------------------------------------------------- *)
(* Program constants                                                       *)
(* ---------------------------------------------------------------------- *)
GK_LIMIT == 8192

Width == 2 ^ MaxLimit

BoundVals == {0, Width}

Abs(x) == IF x < 0 THEN -x ELSE x
Max(x, y) == IF x >= y THEN x ELSE y

RECURSIVE SumSeq(_, _)
SumSeq(s, n) == IF n = 0 THEN 0 ELSE s[n] + SumSeq(s, n - 1)

VARIABLES
    stack,   \* the active Integrate calls, outermost first
    pool,    \* workspace_manager.gk_workspaces: <<[w, in_use]>>
    out,     \* the top-level caller's view: return value, *abserr, *neval, diagnostic
    rule,    \* the integrand's (estimate, error) per subinterval, as far as evaluated
    mode,    \* what the behaviour explores: "run", "nest", "pair", ... (never changes)
    calls,   \* top-level calls made so far
    prev,    \* arguments and outputs of the last two completed top-level calls
    depth    \* the most calls that ever held a workspace of the pool at once

vars == <<stack, pool, out, rule, mode, calls, prev, depth>>

(* ---------------------------------------------------------------------- *)
(* The inputs each kind of behaviour draws from                            *)
(*   "run":  one top-level call, the widest inputs                         *)
(*   "nest": one top-level call whose integrand calls Integrate again      *)
(*   "pair": MaxCalls top-level calls on one and the same integrand        *)
(*   "live": one top-level call on a workspace of the caller               *)
(*   "reuse": MaxCalls calls on the pool, then one on a new workspace, all *)
(*            on the same integrand                                        *)
(* ---------------------------------------------------------------------- *)
\* the fixed rule's estimates and errors for a subinterval
EstVals == IF mode = "nest" THEN {1} ELSE {-1, 1}
ErrVals == IF mode = "run" THEN {0, 1, MaxErr} ELSE {0, MaxErr}
\* epsabs; and epsrel = k/EpsInv: 0, below 50*DBL_EPSILON, that or above
EpsAbsVals ==
    IF mode = "run" THEN {-1, 0, 2} ELSE IF mode = "nest" THEN {0} ELSE {0, 2}
EpsRelVals == IF mode = "run" THEN {0, 10, 50} ELSE {0, 100}
TopCalls ==
    IF mode = "pair" THEN MaxCalls
    ELSE IF mode = "reuse" THEN MaxCalls + 1 ELSE 1
\* the calls of the behaviour integrate one and the same function
SameIntegrand == mode \in {"pair", "reuse"}

(* ---------------------------------------------------------------------- *)
(* GKWorkspace: the interval store.  C arrays are sequences; C index i is  *)
(* position i+1.  Slots at positions above size hold what an earlier call  *)
(* left there.                                                             *)
(* ---------------------------------------------------------------------- *)
GKWorkspace(limit) ==
    [limit |-> limit, size |-> 0, alist |-> <<>>, blist |-> <<>>,
     rlist |-> <<>>, elist |-> <<>>, order |-> <<>>]

\* array[i] = v, for a position written before or the next new one
SetSlot(s, i, v) == IF i <= Len(s) THEN [s EXCEPT ![i] = v] ELSE Append(s, v)

\* the seed that sets size only on an empty workspace
InitWorkspaceKeepsSize(w, a, b, result, abserr) ==
    [w EXCEPT !.size = IF w.size = 0 THEN 1 ELSE w.size,
              !.alist = SetSlot(w.alist, 1, a),
              !.blist = SetSlot(w.blist, 1, b),
              !.rlist = SetSlot(w.rlist, 1, result),
              !.elist = SetSlot(w.elist, 1, abserr),
              !.order = SetSlot(w.order, 1, 1)]

\* lines 112-117: size = 1; alist[0] = a; ... order[0] = 0
InitWorkspace(w, a, b, result, abserr) ==
    [w EXCEPT !.size = 1,
              !.alist = SetSlot(w.alist, 1, a),
              !.blist = SetSlot(w.blist, 1, b),
              !.rlist = SetSlot(w.rlist, 1, result),
              !.elist = SetSlot(w.elist, 1, abserr),
              !.order = SetSlot(w.order, 1, 1)]

\* the subinterval order[0] names
GetMaxInterval(w) ==
    LET i == w.order[1]
    IN [a |-> w.alist[i], b |-> w.blist[i], r |-> w.rlist[i], e |-> w.elist[i]]

\* ord lists slots by descending error; slot i goes after every slot whose
\* error is at least its own (the earlier inserted of equals stays first)
InsertByError(ord, elist, i) ==
    LET k == Cardinality({j \in 1 .. Len(ord) : elist[ord[j]] >= elist[i]})
    IN SubSeq(ord, 1, k) \o <<i>> \o SubSeq(ord, k + 1, Len(ord))

\* the replacement that puts the two children at the end of the live order
\* without looking at their errors
UpdateAppends(w, a1, b1, area1, error1, a2, b2, area2, error2) ==
    LET imax == w.order[1]
        inew == w.size + 1
    IN [w EXCEPT !.size = inew,
                 !.alist = SetSlot([w.alist EXCEPT ![imax] = a1], inew, a2),
                 !.blist = SetSlot([w.blist EXCEPT ![imax] = b1], inew, b2),
                 !.rlist = SetSlot([w.rlist EXCEPT ![imax] = area1], inew, area2),
                 !.elist = SetSlot([w.elist EXCEPT ![imax] = error1], inew, error2),
                 !.order = SubSeq(w.order, 2, w.size) \o <<imax, inew>>
                              \o SubSeq(w.order, inew + 1, Len(w.order))]

\* the maximum-error entry is replaced by the two children: the first child
\* takes the parent's slot, the second the next free slot
Update(w, a1, b1, area1, error1, a2, b2, area2, error2) ==
    LET imax == w.order[1]
        inew == w.size + 1
        al == SetSlot([w.alist EXCEPT ![imax] = a1], inew, a2)
        bl == SetSlot([w.blist EXCEPT ![imax] = b1], inew, b2)
        rl == SetSlot([w.rlist EXCEPT ![imax] = area1], inew, area2)
        el == SetSlot([w.elist EXCEPT ![imax] = error1], inew, error2)
        rest == SubSeq(w.order, 2, w.size)
        live == InsertByError(InsertByError(rest, el, imax), el, inew)
    IN [w EXCEPT !.size = inew, !.alist = al, !.blist = bl, !.rlist = rl,
                 !.elist = el,
                 !.order = live \o SubSeq(w.order, inew + 1, Len(w.order))]

\* result and abserr re-summed over the live entries
SumResults(w) ==
    [result |-> SumSeq(w.rlist, w.size), abserr |-> SumSeq(w.elist, w.size)]

\* what the caller is told for an error code
ReportError(error_code) ==
    CASE error_code = 1 -> "InvalidTolerance"
      [] error_code = 3 -> "RoundoffOrSingularity"
      [] error_code = 4 -> "SubdivisionLimit"
      [] OTHER -> "ToleranceNotMet"

(* ---------------------------------------------------------------------- *)
(* GaussKronrod15: 15 evaluations of f, one (estimate, error) pair         *)
(* ---------------------------------------------------------------------- *)
\* f(c), then (n-1)/2 and n/2 symmetric pairs, n = 8
GaussKronrod15Evals == LET n == 8 IN 1 + 2 * ((n - 1) \div 2) + 2 * (n \div 2)

\* the pairs the rule may return for subinterval [lo, hi] of the integrand of
\* call fr: any pair, but one integrand gives one pair per subinterval
GaussKronrod15(fr, lo, hi) ==
    LET known == {r \in rule : r.lo = lo /\ r.hi = hi}
    IN IF fr.memo /\ known # {}
       THEN {[est |-> r.est, err |-> r.err] : r \in known}
       ELSE {[est |-> r, err |-> e] : r \in EstVals, e \in ErrVals}

Remember(fr, lo, hi, v) ==
    IF fr.memo
    THEN rule \cup {[lo |-> lo, hi |-> hi, est |-> v.est, err |-> v.err]}
    ELSE rule

(* ---------------------------------------------------------------------- *)
(* GKWorkspace::Integrate, lines 87-178                                    *)
(* ---------------------------------------------------------------------- *)
\* the check without its 50*DBL_EPSILON threshold
BadToleranceZeroOnly(epsabs, epsrel) == epsabs <= 0 /\ epsrel <= 0

\* line 93: epsabs <= 0 && (epsrel < 50*DBL_EPSILON || epsrel < 0.5e-28);
\* epsrel = k/EpsInv, and k/EpsInv < 0.5e-28 exactly when k <= 0
BadTolerance(epsabs, epsrel) ==
    epsabs <= 0 /\ (epsrel < 50 \/ epsrel <= 0)

\* line 149, times EpsInv: fmax(epsabs, epsrel*fabs(area))
Tolerance(epsabs, epsrel, area) == Max(epsabs * EpsInv, epsrel * Abs(area))

\* err > tolerance, tolerance being held times EpsInv
Exceeds(err, tolerance) == err * EpsInv > tolerance

\* lines 153-154: fabs(a1) <= tmp && fabs(b2) <= tmp with
\* tmp = (1 + 100*DBL_EPSILON) * (fabs(a2) + 1000*DBL_MIN); on the integer
\* grid the 1000*DBL_MIN term never decides the comparison
TooSmall(a1, a2, b2) ==
    /\ Abs(a1) * EpsInv <= (EpsInv + 100) * Abs(a2)
    /\ Abs(b2) * EpsInv <= (EpsInv + 100) * Abs(a2)

\* lines 151-160: the error code after the checks of one iteration
ErrorCheck(error_code, errsum, tolerance, a1, a2, b2, iteration, limit) ==
    IF Exceeds(errsum, tolerance)
    THEN LET code == IF TooSmall(a1, a2, b2) THEN 3 ELSE error_code
         IN IF iteration = limit THEN 4 ELSE code
    ELSE error_code

\* the loop condition without its test of the iteration counter
LoopContinuesUnbounded(iteration, limit, error_code, errsum, tolerance) ==
    error_code = 0 /\ Exceeds(errsum, tolerance)

\* line 165: while(iteration < limit && error_code == 0 && errsum > tolerance)
LoopContinues(iteration, limit, error_code, errsum, tolerance) ==
    iteration < limit /\ error_code = 0 /\ Exceeds(errsum, tolerance)

\* line 170: if(abserr > tolerance)
MustReport(abserr, tolerance) == Exceeds(abserr, tolerance)

\* the bisection a call did last, before it did any
NoCut == [lo |-> 0, mid |-> 0, hi |-> 0,
          v1 |-> [est |-> 0, err |-> 0], v2 |-> [est |-> 0, err |-> 0]]

\* lines 88-105: the locals of a call, the tolerance check, the swap.  Beside
\* the locals the record keeps the history of the call: evals (evaluations of
\* the integrand), passes (runs of the loop body), born (per slot, when its
\* entry was inserted), cut (the last bisection), wrote (outputs written)
Enter(kind, ws, own, memo, a, b, epsrel, epsabs) ==
    LET bad == BadTolerance(epsabs, epsrel)
    IN [kind |-> kind, ws |-> ws, own |-> own, memo |-> memo,
        arg_a |-> a, arg_b |-> b, epsrel |-> epsrel, epsabs |-> epsabs,
        a |-> IF a > b THEN b ELSE a,
        b |-> IF a > b THEN a ELSE b,
        sign |-> IF a > b THEN -1 ELSE 1,
        pc |-> IF bad THEN "ret" ELSE "boot",
        error_code |-> 0, neval |-> 0, result |-> 0, abserr |-> 0,
        area |-> 0, errsum |-> 0, iteration |-> 0, tolerance |-> 0,
        evals |-> 0, wrote |-> FALSE,
        diag |-> IF bad THEN ReportError(1) ELSE "none",
        passes |-> 0, born |-> <<>>, cut |-> NoCut]

\* lines 107-121: the first integration and the seed of the workspace
First(fr, v) ==
    [fr EXCEPT !.result = v.est, !.abserr = v.err,
               !.neval = fr.neval + 15,
               !.evals = fr.evals + GaussKronrod15Evals,
               !.area = v.est, !.errsum = v.err, !.iteration = 1,
               !.born = <<1>>,
               !.pc = "loop"]

\* the pass that adds the children to the running totals and forgets to take
\* the parent out
PassKeepsParent(fr, w, v1, v2) ==
    LET m == GetMaxInterval(w)
        errsum == fr.errsum + v1.err + v2.err
        area == fr.area + v1.est + v2.est
        tolerance == Tolerance(fr.epsabs, fr.epsrel, area)
        code == ErrorCheck(fr.error_code, errsum, tolerance, m.a,
                           (m.a + m.b) \div 2, m.b, fr.iteration, w.limit)
    IN [fr EXCEPT !.neval = fr.neval + 30,
                  !.evals = fr.evals + 2 * GaussKronrod15Evals,
                  !.errsum = errsum, !.area = area,
                  !.tolerance = tolerance, !.error_code = code,
                  !.iteration = fr.iteration + 1,
                  !.pc = IF LoopContinues(fr.iteration + 1, w.limit, code,
                                          errsum, tolerance)
                         THEN "loop" ELSE "final"]

\* the pass that counts its 30 evaluations only when it sets no error code
PassCountsUnlessError(fr, w, v1, v2) ==
    LET m == GetMaxInterval(w)
        b1 == (m.a + m.b) \div 2
        errsum == fr.errsum + v1.err + v2.err - m.e
        area == fr.area + v1.est + v2.est - m.r
        tolerance == Tolerance(fr.epsabs, fr.epsrel, area)
        code == ErrorCheck(fr.error_code, errsum, tolerance, m.a, b1, m.b,
                           fr.iteration, w.limit)
    IN [fr EXCEPT !.neval = IF code = 0 THEN fr.neval + 30 ELSE fr.neval,
                  !.evals = fr.evals + 2 * GaussKronrod15Evals,
                  !.errsum = errsum, !.area = area,
                  !.tolerance = tolerance, !.error_code = code,
                  !.iteration = fr.iteration + 1,
                  !.passes = fr.passes + 1,
                  !.pc = IF LoopContinues(fr.iteration + 1, w.limit, code,
                                          errsum, tolerance)
                         THEN "loop" ELSE "final"]

\* lines 131-165: one pass of the do-while loop, on the workspace w, with
\* the rule's values v1, v2 for the two halves of the maximum-error interval
Pass(fr, w, v1, v2) ==
    LET m == GetMaxInterval(w)
        a1 == m.a
        b1 == (m.a + m.b) \div 2
        a2 == b1
        b2 == m.b
        area12 == v1.est + v2.est
        error12 == v1.err + v2.err
        errsum == fr.errsum + error12 - m.e
        area == fr.area + area12 - m.r
        tolerance == Tolerance(fr.epsabs, fr.epsrel, area)
        code == ErrorCheck(fr.error_code, errsum, tolerance, a1, a2, b2,
                           fr.iteration, w.limit)
        iteration == fr.iteration + 1
    IN [fr EXCEPT !.neval = fr.neval + 30,
                  !.evals = fr.evals + 2 * GaussKronrod15Evals,
                  !.errsum = errsum, !.area = area,
                  !.tolerance = tolerance, !.error_code = code,
                  !.iteration = iteration,
                  !.passes = fr.passes + 1,
                  !.born = SetSlot([fr.born EXCEPT ![w.order[1]] =
                                       2 * iteration - 2],
                                   w.size + 1, 2 * iteration - 1),
                  !.cut = [lo |-> a1, mid |-> b1, hi |-> b2,
                           v1 |-> v1, v2 |-> v2],
                  !.pc = IF LoopContinues(iteration, w.limit, code, errsum,
                                          tolerance)
                         THEN "loop" ELSE "final"]

\* line 162 with error12 passed where error2 belongs
ReplaceTypo(w, m, mid, v1, v2) ==
    Update(w, m.a, mid, v1.est, v1.err, mid, m.b, v2.est, v1.err + v2.err)

\* the replacement skipped for an interval the roundoff test of line 154
\* finds too small
ReplaceUnlessTooSmall(w, m, mid, v1, v2) ==
    IF TooSmall(m.a, mid, m.b) THEN w
    ELSE Update(w, m.a, mid, v1.est, v1.err, mid, m.b, v2.est, v2.err)

\* the replacement with a2 = a_i where line 137 has a2 = b1
ReplaceRightWhole(w, m, mid, v1, v2) ==
    Update(w, m.a, mid, v1.est, v1.err, m.a, m.b, v2.est, v2.err)

\* lines 134-138 and 162: the maximum-error interval m, cut at mid, gives way
\* to its halves with the rule's values v1 and v2
Replace(w, m, mid, v1, v2) ==
    Update(w, m.a, mid, v1.est, v1.err, mid, m.b, v2.est, v2.err)

\* the end of the call reporting only an error code set in the loop
FinishCodedOnly(fr, w) ==
    LET s == SumResults(w)
    IN [fr EXCEPT !.result = fr.sign * s.result, !.abserr = s.abserr,
                  !.diag = IF fr.error_code # 0
                           THEN ReportError(fr.error_code) ELSE "none",
                  !.wrote = TRUE, !.pc = "ret"]

\* the end of the call returning the sum without the sign of the swap
FinishUnsigned(fr, w) ==
    LET s == SumResults(w)
    IN [fr EXCEPT !.result = s.result, !.abserr = s.abserr,
                  !.diag = IF MustReport(s.abserr, fr.tolerance)
                           THEN ReportError(fr.error_code) ELSE "none",
                  !.wrote = TRUE, !.pc = "ret"]

\* lines 167-177: the re-summation, the report, the outputs
Finish(fr, w) ==
    LET s == SumResults(w)
    IN [fr EXCEPT !.result = fr.sign * s.result, !.abserr = s.abserr,
                  !.diag = IF MustReport(s.abserr, fr.tolerance)
                           THEN ReportError(fr.error_code) ELSE "none",
                  !.wrote = TRUE, !.pc = "ret"]

(* ---------------------------------------------------------------------- *)
(* WorkspaceManager: the pool of workspaces, each in use (1) or not (0)    *)
(* ---------------------------------------------------------------------- *)
\* an unused workspace if there is one, else a new one; either way marked in
\* use.  The outcomes: the pool afterwards and the workspace handed out.
get_gk_workspace(p) ==
    LET free == {i \in 1 .. Len(p) : p[i].in_use = 0}
    IN IF free # {}
       THEN {[pool |-> [p EXCEPT ![i].in_use = 1], ws |-> i] : i \in free}
       ELSE {[pool |-> Append(p, [w |-> GKWorkspace(GK_LIMIT), in_use |-> 1]),
              ws |-> Len(p) + 1]}

release_gk_workspace(p, i) == [p EXCEPT ![i].in_use = 0]

(* ---------------------------------------------------------------------- *)
(* Integrate and Integrate<Sub>, lines 226-252                             *)
(* ---------------------------------------------------------------------- *)
\* one workspace kept for every call, whether or not a call holds it
BorrowCached(p) ==
    IF p # <<>> THEN {[pool |-> [p EXCEPT ![1].in_use = 1], ws |-> 1]}
    ELSE get_gk_workspace(p)

\* a new workspace for every call
BorrowFresh(p) ==
    {[pool |-> Append(p, [w |-> GKWorkspace(GK_LIMIT), in_use |-> 1]),
      ws |-> Len(p) + 1]}

\* lines 228, 247: GKWorkspace* workspace = workspace_manager.get_gk_workspace()
Borrow(p) == get_gk_workspace(p)

\* the release skipped when the call failed its tolerance check
GiveBackUnlessFailed(p, fr) ==
    IF fr.diag = "InvalidTolerance" THEN p ELSE release_gk_workspace(p, fr.ws)

\* lines 230, 250: workspace_manager.release_gk_workspace(workspace)
GiveBack(p, fr) == release_gk_workspace(p, fr.ws)

\* the substitution of the model: sub.u(x) = Width - x
Subs == {"mirror"}
SubU(sub, x) == IF sub = "mirror" THEN Width - x ELSE x

NoWorkspace == GKWorkspace(0)

Top == stack[Len(stack)]

\* the workspace a call works on: its own, or the pool's
WsOf(fr) == IF fr.ws = 0 THEN fr.own ELSE pool[fr.ws].w

\* the calls of a stack that hold a workspace of the pool
Borrowers(st) == Cardinality({i \in 1 .. Len(st) : st[i].ws # 0})

\* the integrand is being evaluated: it may call Integrate itself
Evaluating(fr) == fr.pc \in {"boot", "loop"}

CanCall ==
    \/ stack = <<>> /\ calls < TopCalls
    \/ /\ mode = "nest"
       /\ stack # <<>>
       /\ Len(stack) < MaxDepth
       /\ Evaluating(Top)

\* the top call continues as fr, on the workspace w
Continue(fr, w) ==
    /\ stack' = [stack EXCEPT ![Len(stack)] =
                    IF fr.ws = 0 THEN [fr EXCEPT !.own = w] ELSE fr]
    /\ pool' = IF fr.ws = 0 THEN pool ELSE [pool EXCEPT ![fr.ws].w = w]

Init ==
    /\ stack = <<>>
    /\ pool = <<>>
    /\ out = [result |-> 0, abserr |-> 0, neval |-> 0, diag |-> "none"]
    /\ rule = {}
    /\ mode = "nest"
    /\ calls = 0
    /\ prev = <<>>
    /\ depth = 0

\* Integrate(f, a, b, epsrel, epsabs, abserr, neval), lines 227-229
CallIntegrate(a, b, epsrel, epsabs) ==
    /\ CanCall
    /\ \E g \in Borrow(pool) :
          /\ pool' = g.pool
          /\ stack' = Append(stack, Enter("pool", g.ws, NoWorkspace,
                                          SameIntegrand,
                                          a, b, epsrel, epsabs))
    /\ calls' = IF stack = <<>> THEN calls + 1 ELSE calls
    /\ depth' = Max(depth, Borrowers(stack) + 1)
    /\ UNCHANGED <<out, rule, mode, prev>>

\* Integrate<Sub>(f, a, b, epsrel, epsabs, abserr, neval, sub), lines 246-249
CallIntegrateSub(sub, a, b, epsrel, epsabs) ==
    /\ CanCall
    /\ \E g \in Borrow(pool) :
          /\ pool' = g.pool
          /\ stack' = Append(stack, Enter("sub", g.ws, NoWorkspace, FALSE,
                                          SubU(sub, a), SubU(sub, b),
                                          epsrel, epsabs))
    /\ calls' = IF stack = <<>> THEN calls + 1 ELSE calls
    /\ depth' = Max(depth, Borrowers(stack) + 1)
    /\ UNCHANGED <<out, rule, mode, prev>>

\* GKWorkspace workspace(limit); workspace.Integrate(f, a, b, ...)
CallWorkspace(limit, a, b, epsrel, epsabs) ==
    /\ stack = <<>>
    /\ calls < TopCalls
    /\ stack' = <<Enter("direct", 0, GKWorkspace(limit), SameIntegrand,
                        a, b, epsrel, epsabs)>>
    /\ calls' = calls + 1
    /\ UNCHANGED <<pool, out, rule, mode, prev, depth>>

\* lines 107-121
Bootstrap ==
    /\ stack # <<>>
    /\ Top.pc = "boot"
    /\ \E v \in GaussKronrod15(Top, Top.a, Top.b) :
          /\ Continue(First(Top, v),
                      InitWorkspace(WsOf(Top), Top.a, Top.b, v.est, v.err))
          /\ rule' = Remember(Top, Top.a, Top.b, v)
    /\ UNCHANGED <<out, mode, calls, prev, depth>>

\* lines 130-165, one iteration
Iterate ==
    /\ stack # <<>>
    /\ Top.pc = "loop"
    /\ Top.iteration < MaxLimit \/ Top.iteration = 1
    /\ LET w == WsOf(Top)
           m == GetMaxInterval(w)
           mid == (m.a + m.b) \div 2
       IN \E v1 \in GaussKronrod15(Top, m.a, mid) :
          \E v2 \in GaussKronrod15(Top, mid, m.b) :
             /\ Continue(Pass(Top, w, v1, v2), Replace(w, m, mid, v1, v2))
             /\ rule' = IF Top.memo
                        THEN Remember(Top, m.a, mid, v1)
                                \cup Remember(Top, mid, m.b, v2)
                        ELSE rule
    /\ UNCHANGED <<out, mode, calls, prev, depth>>

\* lines 167-177
Finalize ==
    /\ stack # <<>>
    /\ Top.pc = "final"
    /\ Continue(Finish(Top, WsOf(Top)), WsOf(Top))
    /\ UNCHANGED <<out, rule, mode, calls, prev, depth>>

\* lines 230, 250
Release ==
    /\ stack # <<>>
    /\ Top.pc = "ret"
    /\ Top.ws # 0
    /\ pool' = GiveBack(pool, Top)
    /\ stack' = [stack EXCEPT ![Len(stack)].pc = "done"]
    /\ UNCHANGED <<out, rule, mode, calls, prev, depth>>

\* lines 173-177 and 231: what the caller holds once the call fr has
\* returned; *pabserr and *pneval keep their old values unless written
Delivered(fr) ==
    [result |-> fr.result,
     abserr |-> IF fr.wrote THEN fr.abserr ELSE out.abserr,
     neval |-> IF fr.wrote THEN fr.neval ELSE out.neval,
     diag |-> fr.diag]

\* what a completed top-level call is remembered by: its arguments, the
\* limit of its workspace, and what it delivered
Outcome(fr) ==
    [a |-> fr.arg_a, b |-> fr.arg_b, epsrel |-> fr.epsrel,
     epsabs |-> fr.epsabs, limit |-> WsOf(fr).limit, kind |-> fr.kind,
     passed |-> fr.wrote, out |-> Delivered(fr)]

\* lines 231, 251: return result; the caller sees the outputs
Return ==
    /\ stack # <<>>
    /\ \/ Top.pc = "done"
       \/ Top.pc = "ret" /\ Top.ws = 0
    /\ stack' = SubSeq(stack, 1, Len(stack) - 1)
    /\ out' = IF Len(stack) = 1 THEN Delivered(Top) ELSE out
    /\ prev' = IF Len(stack) > 1 THEN prev
               ELSE IF prev = <<>> THEN <<Outcome(Top)>>
               ELSE <<prev[Len(prev)], Outcome(Top)>>
    /\ UNCHANGED <<pool, rule, mode, calls, depth>>

Next ==
    \/ \E a \in BoundVals : \E b \in BoundVals \ {a} :
       \E epsrel \in EpsRelVals, epsabs \in EpsAbsVals :
             \/ CallIntegrate(a, b, epsrel, epsabs)
             \/ \E sub \in Subs : CallIntegrateSub(sub, a, b, epsrel, epsabs)
             \/ \E limit \in 1 .. MaxLimit :
                   CallWorkspace(limit, a, b, epsrel, epsabs)
    \/ Bootstrap
    \/ Iterate
    \/ Finalize
    \/ Release
    \/ Return

Spec == Init /\ [][Next]_vars

\* one top-level call, with the widest inputs
InitRun ==
    /\ stack = <<>>
    /\ pool = <<>>
    /\ out = [result |-> 0, abserr |-> 0, neval |-> 0, diag |-> "none"]
    /\ rule = {}
    /\ mode = "run"
    /\ calls = 0
    /\ prev = <<>>
    /\ depth = 0

SpecRun == InitRun /\ [][Next]_vars

\* one call on a workspace of the caller, every step of it that can be taken
\* being taken in the end: execution is single-threaded and an evaluation of
\* the integrand returns
InitLive ==
    /\ stack = <<>>
    /\ pool = <<>>
    /\ out = [result |-> 0, abserr |-> 0, neval |-> 0, diag |-> "none"]
    /\ rule = {}
    /\ mode = "live"
    /\ calls = 0
    /\ prev = <<>>
    /\ depth = 0

NextLive ==
    \/ \E a \in BoundVals : \E b \in BoundVals \ {a} :
       \E epsrel \in EpsRelVals, epsabs \in EpsAbsVals :
       \E limit \in 1 .. MaxLimit :
          CallWorkspace(limit, a, b, epsrel, epsabs)
    \/ Bootstrap
    \/ Iterate
    \/ Finalize
    \/ Return

SpecLive ==
    /\ InitLive
    /\ [][NextLive]_vars
    /\ WF_vars(Bootstrap)
    /\ WF_vars(Iterate)
    /\ WF_vars(Finalize)

\* MaxCalls top-level calls on the same integrand
InitPair ==
    /\ stack = <<>>
    /\ pool = <<>>
    /\ out = [result |-> 0, abserr |-> 0, neval |-> 0, diag |-> "none"]
    /\ rule = {}
    /\ mode = "pair"
    /\ calls = 0
    /\ prev = <<>>
    /\ depth = 0

NextPair ==
    \/ \E a \in BoundVals : \E b \in BoundVals \ {a} :
       \E epsrel \in EpsRelVals, epsabs \in EpsAbsVals :
             \/ CallIntegrate(a, b, epsrel, epsabs)
             \/ \E limit \in 1 .. MaxLimit :
                   CallWorkspace(limit, a, b, epsrel, epsabs)
    \/ Bootstrap
    \/ Iterate
    \/ Finalize
    \/ Release
    \/ Return

SpecPair == InitPair /\ [][NextPair]_vars

\* MaxCalls calls of Integrate, the later ones on the workspace the earlier
\* ones left in the pool, then GKWorkspace w; w.Integrate(...) on a new
\* workspace of the default limit; all on the same integrand
InitReuse ==
    /\ stack = <<>>
    /\ pool = <<>>
    /\ out = [result |-> 0, abserr |-> 0, neval |-> 0, diag |-> "none"]
    /\ rule = {}
    /\ mode = "reuse"
    /\ calls = 0
    /\ prev = <<>>
    /\ depth = 0

NextReuse ==
    \/ \E a \in BoundVals : \E b \in BoundVals \ {a} :
       \E epsrel \in EpsRelVals, epsabs \in EpsAbsVals :
             \/ calls < MaxCalls /\ CallIntegrate(a, b, epsrel, epsabs)
             \/ calls = MaxCalls /\ CallWorkspace(GK_LIMIT, a, b, epsrel, epsabs)
    \/ Bootstrap
    \/ Iterate
    \/ Finalize
    \/ Release
    \/ Return

SpecReuse == InitReuse /\ [][NextReuse]_vars

(* ---------------------------------------------------------------------- *)
(* Properties                                                              *)
(* ---------------------------------------------------------------------- *)
Frames == {stack[i] : i \in 1 .. Len(stack)}

\* the last completed top-level call
Last == prev[Len(prev)]

\* C1: a call with epsabs <= 0 and epsrel below 50*DBL_EPSILON (the larger of
\* the two thresholds) never evaluates the integrand, returns 0 and reports
\* InvalidTolerance.
C1_InvalidTolerance ==
    /\ \A fr \in Frames :
          (fr.epsabs <= 0 /\ fr.epsrel < 50) =>
             /\ fr.pc \in {"ret", "done"}
             /\ fr.evals = 0
             /\ fr.result = 0
             /\ fr.diag = "InvalidTolerance"
    /\ (stack = <<>> /\ prev # <<>>) =>
          ((Last.epsabs <= 0 /\ Last.epsrel < 50) =>
              (out.result = 0 /\ out.diag = "InvalidTolerance"))

\* a call with a positive epsrel below the threshold has returned to its caller
C1_Witness ==
    /\ stack = <<>>
    /\ prev # <<>>
    /\ Last.epsabs <= 0
    /\ Last.epsrel > 0
    /\ Last.epsrel < 50
    /\ out.diag = "InvalidTolerance"

\* C2: after a call with epsabs = 0 and epsrel = 0 the caller holds
\* nevals = 0 and the diagnostic InvalidTolerance, whatever its nevals
\* variable held before.
C2_NevalsZero ==
    (stack = <<>> /\ prev # <<>> /\ Last.epsabs = 0 /\ Last.epsrel = 0) =>
       (out.neval = 0 /\ out.diag = "InvalidTolerance")

\* the workspaces held by the active calls are pairwise different
C3_Distinct ==
    \A i, j \in 1 .. Len(stack) :
       (i < j /\ stack[i].ws # 0 /\ stack[j].ws # 0) =>
          stack[i].ws # stack[j].ws

\* a step leaves every call that has a call nested in it, before or after
\* the step, as it was: its locals, its store, its in-use flag
C3_AncestorsKept ==
    \A i \in 1 .. Len(stack) :
       (i <= Len(stack') /\ (i < Len(stack) \/ i < Len(stack'))) =>
          /\ stack'[i] = stack[i]
          /\ stack[i].ws # 0 => pool'[stack[i].ws] = pool[stack[i].ws]

\* C3: a nested call never gets a workspace an ancestor holds, and no step of
\* a nested call, from its acquire to its release and return, changes an
\* ancestor's store, running totals or in-use flag.
C3_Nested == [](C3_Distinct) /\ [][C3_AncestorsKept]_vars

\* a nested call has released its workspace while its caller, two
\* subintervals into its own run, still holds another
C3_Witness ==
    /\ Len(stack) = 2
    /\ stack[2].pc = "done"
    /\ stack[2].wrote
    /\ stack[1].pc = "loop"
    /\ stack[1].ws # 0
    /\ pool[stack[1].ws].w.size = 2
    /\ pool[stack[1].ws].in_use = 1
    /\ pool[stack[2].ws].in_use = 0

C5_SubdivisionLimit ==
    \A fr \in Frames :
       (/\ fr.pc \in {"ret", "done"}
        /\ fr.wrote
        /\ fr.iteration >= WsOf(fr).limit
        /\ fr.abserr * EpsInv > fr.tolerance) =>
          fr.diag = "SubdivisionLimit"

\* C6: a call that passed the tolerance check and returns abserr above
\* max(epsabs, epsrel*|result|) returns a diagnostic other than none: the one
\* set in the loop, or ToleranceNotMet when the loop set none.
C6_Diagnosed ==
    \A fr \in Frames :
       (/\ fr.pc \in {"ret", "done"}
        /\ fr.wrote
        /\ fr.abserr * EpsInv >
              Max(fr.epsabs * EpsInv, fr.epsrel * Abs(fr.result))) =>
          /\ fr.diag \in {"RoundoffOrSingularity", "SubdivisionLimit",
                          "ToleranceNotMet"}
          /\ fr.diag = "ToleranceNotMet" <=> fr.error_code = 0

\* a run that left the loop without an error code and short of the tolerance
C6_Witness ==
    \E fr \in Frames :
       /\ fr.pc = "ret"
       /\ fr.wrote
       /\ fr.error_code = 0
       /\ fr.abserr * EpsInv >
             Max(fr.epsabs * EpsInv, fr.epsrel * Abs(fr.result))
       /\ fr.diag = "ToleranceNotMet"

\* C7: the store of a running call never holds more live entries than its
\* capacity.
C7_WithinCapacity ==
    \A fr \in Frames :
       fr.pc \in {"loop", "final", "ret"} => WsOf(fr).size <= WsOf(fr).limit

\* two completed calls that differ in the order of their bounds only
Swapped(r1, r2) ==
    /\ r1.a = r2.b
    /\ r1.b = r2.a
    /\ r1.epsrel = r2.epsrel
    /\ r1.epsabs = r2.epsabs
    /\ r1.limit = r2.limit

\* C8: the call with the bounds swapped returns the negated result, the same
\* abserr, the same nevals and the same diagnostic.
C8_SwapNegates ==
    (Len(prev) = 2 /\ Swapped(prev[1], prev[2])) =>
       /\ prev[2].out.result = -prev[1].out.result
       /\ prev[2].out.abserr = prev[1].out.abserr
       /\ prev[2].out.neval = prev[1].out.neval
       /\ prev[2].out.diag = prev[1].out.diag

\* both orders of the bounds were integrated, to a result that is not zero,
\* in more than one pass
C8_Witness ==
    /\ Len(prev) = 2
    /\ Swapped(prev[1], prev[2])
    /\ prev[1].passed
    /\ prev[1].out.result # 0
    /\ prev[1].out.neval > 45

\* two completed calls that differ in the capacity of their store only
MoreCapacity(r1, r2) ==
    /\ r1.a = r2.a
    /\ r1.b = r2.b
    /\ r1.epsrel = r2.epsrel
    /\ r1.epsabs = r2.epsabs
    /\ r1.passed
    /\ r2.passed
    /\ r1.limit < r2.limit

\* C9 as claimed: the larger capacity never returns the larger abserr.
C9_Monotone ==
    \A i, j \in 1 .. Len(prev) :
       MoreCapacity(prev[i], prev[j]) =>
          prev[j].out.abserr <= prev[i].out.abserr

\* the rule gave the two halves of every bisected subinterval errors that
\* add up to at most the error of the subinterval
SubAdditive ==
    \A p \in rule, c1 \in rule, c2 \in rule :
       (/\ c1.lo = p.lo
        /\ c2.hi = p.hi
        /\ c1.hi = c2.lo
        /\ c1.hi < p.hi
        /\ c1.lo < c1.hi) => c1.err + c2.err <= p.err

\* C9, amended: the larger capacity never returns the larger abserr when the
\* rule's errors do not grow under bisection.
C9_MonotoneSubAdditive ==
    SubAdditive =>
       \A i, j \in 1 .. Len(prev) :
          MoreCapacity(prev[i], prev[j]) =>
             prev[j].out.abserr <= prev[i].out.abserr

\* the larger capacity went one bisection further and returned less
C9_Witness ==
    /\ SubAdditive
    /\ \E i, j \in 1 .. Len(prev) :
          /\ MoreCapacity(prev[i], prev[j])
          /\ prev[j].out.neval > prev[i].out.neval
          /\ prev[j].out.abserr < prev[i].out.abserr

\* C10: after the bootstrap and after every pass of the loop the running
\* result is the sum of the live estimates and the running error the sum of
\* the live errors.
C10_RunningTotals ==
    \A fr \in Frames :
       fr.pc \in {"loop", "final"} =>
          /\ fr.area = SumSeq(WsOf(fr).rlist, WsOf(fr).size)
          /\ fr.errsum = SumSeq(WsOf(fr).elist, WsOf(fr).size)

\* two passes done, three live entries
C10_Witness ==
    \E fr \in Frames :
       /\ fr.pc \in {"loop", "final"}
       /\ fr.iteration = 3
       /\ WsOf(fr).size = 3
       /\ fr.errsum > 0

\* the calls whose store has been seeded and is theirs to read
Seeded == {fr \in Frames : fr.pc \in {"loop", "final"} \/ (fr.pc = "ret" /\ fr.wrote)}

\* C11: after the seed and after every replacement order[0] names a live
\* entry, no live entry has a larger error, and of the live entries with that
\* error none was inserted before it.
C11_MaxFirst ==
    \A fr \in Seeded :
       LET w == WsOf(fr)
           i0 == w.order[1]
       IN /\ i0 \in 1 .. w.size
          /\ \A j \in 1 .. w.size :
                /\ w.elist[j] <= w.elist[i0]
                /\ w.elist[j] = w.elist[i0] => fr.born[i0] <= fr.born[j]

\* three live entries after two bisections, the two of the largest error
\* inserted by different bisections, the older one first, and not in slot 1
C11_Witness ==
    \E fr \in Seeded :
       LET w == WsOf(fr)
           i0 == w.order[1]
       IN /\ w.size = 3
          /\ i0 # 1
          /\ w.elist[i0] > 0
          /\ \E j \in 1 .. 3 :
                /\ j # i0
                /\ w.elist[j] = w.elist[i0]
                /\ fr.born[j] > fr.born[i0] + 1
          /\ \E j \in 1 .. 3 : w.elist[j] < w.elist[i0]

\* the calls that are past their bootstrap
Booted == {fr \in Frames : fr.pc \in {"loop", "final"} \/ fr.wrote}

\* the counter is 1 plus the bisections done; a call that left the loop did
\* at least one and none did more than max(1, limit - 1); a call about to
\* bisect again set no error code and is above its tolerance
C12_Bounded ==
    \A fr \in Booted :
       /\ fr.iteration = 1 + fr.passes
       /\ fr.pc # "loop" => fr.passes >= 1
       /\ fr.passes <= Max(1, WsOf(fr).limit - 1)
       /\ (fr.pc = "loop" /\ fr.passes >= 1) =>
             /\ fr.error_code = 0
             /\ Exceeds(fr.errsum, fr.tolerance)

\* a call on a store of a limit the model follows to its end
Followed(fr) == fr.kind = "direct" /\ WsOf(fr).limit <= MaxLimit

\* C12: a call that passed the tolerance check runs its loop body at least
\* once and at most max(1, limit - 1) times, its counter being 1 plus the
\* bisections done, bisects no more once an error code is set or the error
\* is within the tolerance, and reaches its return.
C12_Terminates ==
    /\ [](C12_Bounded)
    /\ (stack # <<>> /\ Followed(stack[1]) /\ stack[1].pc = "boot")
          ~> (stack # <<>> /\ stack[1].pc = "ret" /\ stack[1].wrote)

\* a call on a store of limit 3 returned after two bisections, still above
\* its tolerance
C12_Witness ==
    \E fr \in Frames :
       /\ fr.pc = "ret"
       /\ fr.wrote
       /\ WsOf(fr).limit = 3
       /\ fr.passes = 2
       /\ fr.error_code = 0
       /\ Exceeds(fr.abserr, fr.tolerance)

\* C13: a call that passed the tolerance check counts 15 evaluations for the
\* bootstrap and 30 for every bisection, which is what the rule evaluated,
\* and reports that count whatever diagnostic ends the run.
C13_Nevals ==
    /\ \A fr \in Booted :
          /\ fr.neval = 15 + 30 * fr.passes
          /\ fr.neval = fr.evals
    /\ (stack = <<>> /\ prev # <<>> /\ Last.passed) =>
          \E k \in 1 .. MaxLimit : out.neval = 15 + 30 * k

\* a run of two bisections ended by the roundoff diagnostic has returned 75
C13_Witness ==
    /\ stack = <<>>
    /\ prev # <<>>
    /\ Last.passed
    /\ out.diag = "RoundoffOrSingularity"
    /\ out.neval = 75

\* slot i of w holds the subinterval [lo, hi] with the rule's values v
Holds(w, i, lo, hi, v) ==
    /\ w.alist[i] = lo
    /\ w.blist[i] = hi
    /\ w.rlist[i] = v.est
    /\ w.elist[i] = v.err

\* C14: when the loop ends on an error code, the store holds the two children
\* of the bisection of that iteration in place of their parent, and the
\* result and abserr returned are the sums over that store.
C14_ChildrenKept ==
    \A fr \in Frames :
       (fr.error_code \in {3, 4} /\ (fr.pc = "final" \/ fr.wrote)) =>
          LET w == WsOf(fr)
              c == fr.cut
          IN /\ w.size = fr.passes + 1
             /\ \E i, j \in 1 .. w.size :
                   /\ i # j
                   /\ Holds(w, i, c.lo, c.mid, c.v1)
                   /\ Holds(w, j, c.mid, c.hi, c.v2)
             /\ \A i \in 1 .. w.size :
                   ~(w.alist[i] = c.lo /\ w.blist[i] = c.hi)
             /\ fr.wrote =>
                   /\ fr.result = fr.sign * SumSeq(w.rlist, w.size)
                   /\ fr.abserr = SumSeq(w.elist, w.size)

\* a run ended by the roundoff test in its second bisection has written its
\* outputs, the error of the last two children in them
C14_Witness ==
    \E fr \in Frames :
       /\ fr.pc = "ret"
       /\ fr.wrote
       /\ fr.error_code = 3
       /\ fr.passes = 2
       /\ WsOf(fr).size = 3
       /\ fr.cut.v1.err + fr.cut.v2.err > 0
       /\ fr.diag = "RoundoffOrSingularity"

\* a step never takes a workspace out of the pool, and adds one only when
\* every workspace of the pool is in use
C15_GrowsWhenFull ==
    /\ Len(pool') >= Len(pool)
    /\ Len(pool') > Len(pool) =>
          /\ Len(pool') = Len(pool) + 1
          /\ \A i \in 1 .. Len(pool) : pool[i].in_use = 1

\* C15: the pool grows only when all its workspaces are in use and never
\* shrinks, so it holds as many workspaces as the deepest nesting of calls
\* reached so far; calls made one after the other share one workspace.
C15_PoolSize == [](Len(pool) = depth) /\ [][C15_GrowsWhenFull]_vars

\* a second call made by the integrand of the outer call starts on the
\* workspace the first one left, the pool still two workspaces
C15_Witness ==
    /\ Len(stack) = 2
    /\ stack[1].ws # 0
    /\ stack[2].ws # 0
    /\ stack[2].pc = "boot"
    /\ pool[stack[2].ws].w.size >= 1
    /\ Len(pool) = 2
    /\ depth = 2

\* two completed calls with the same arguments on stores of the same limit
SameCall(r1, r2) ==
    /\ r1.a = r2.a
    /\ r1.b = r2.b
    /\ r1.epsrel = r2.epsrel
    /\ r1.epsabs = r2.epsabs
    /\ r1.limit = r2.limit

\* C16: a call on a workspace of the pool that an earlier call has used and
\* the same call on a newly constructed workspace give the caller the same
\* result, abserr, nevals and diagnostic.
C16_StoreBlind ==
    (/\ Len(prev) = 2
     /\ prev[1].kind = "pool"
     /\ prev[2].kind = "direct"
     /\ SameCall(prev[1], prev[2])) => prev[2].out = prev[1].out

\* the call on the used workspace left entries of the earlier call beyond
\* its own, and the call on the new workspace has returned the same outputs
C16_Witness ==
    /\ calls = MaxCalls + 1
    /\ stack = <<>>
    /\ Len(prev) = 2
    /\ prev[1].kind = "pool"
    /\ prev[2].kind = "direct"
    /\ SameCall(prev[1], prev[2])
    /\ prev[1].passed
    /\ prev[1].out.result # 0
    /\ prev[1].out.abserr > 0
    /\ Len(pool[1].w.rlist) > pool[1].w.size
    /\ prev[2].out = prev[1].out

\* the live subintervals of a store, as pairs of bounds
Live(w) == {<<w.alist[i], w.blist[i]>> : i \in 1 .. w.size}

\* the live subintervals of the call fr on the store w are as many as the
\* live entries, none empty, no two overlapping, each starting where the
\* range or another one ends and ending where the range or another one
\* starts, their widths adding up to the width of the normalized range
Tiles(fr, w) ==
    LET lo == IF fr.arg_a < fr.arg_b THEN fr.arg_a ELSE fr.arg_b
        hi == IF fr.arg_a < fr.arg_b THEN fr.arg_b ELSE fr.arg_a
        width == [i \in 1 .. w.size |-> w.blist[i] - w.alist[i]]
    IN /\ Cardinality(Live(w)) = w.size
       /\ \A p \in Live(w) : lo <= p[1] /\ p[1] < p[2] /\ p[2] <= hi
       /\ \A p, q \in Live(w) : p # q => (p[2] <= q[1] \/ q[2] <= p[1])
       /\ \A p \in Live(w) :
             /\ p[1] = lo \/ \E q \in Live(w) : q[2] = p[1]
             /\ p[2] = hi \/ \E q \in Live(w) : q[1] = p[2]
       /\ SumSeq(width, w.size) = hi - lo

C17_Tiling == \A fr \in Seeded : Tiles(fr, WsOf(fr))

\* a pass of the loop takes one live subinterval out and puts its two halves
\* in, cut at its midpoint
C17_Bisects ==
    (/\ stack # <<>>
     /\ Len(stack') = Len(stack)
     /\ Top.pc = "loop"
     /\ stack'[Len(stack)].passes = Top.passes + 1) =>
       LET fr1 == stack'[Len(stack)]
           w0 == WsOf(Top)
           w1 == IF fr1.ws = 0 THEN fr1.own ELSE pool'[fr1.ws].w
       IN \E p \in Live(w0) :
             LET mid == (p[1] + p[2]) \div 2
             IN /\ 2 * mid = p[1] + p[2]
                /\ Live(w1) = (Live(w0) \ {p}) \cup {<<p[1], mid>>, <<mid, p[2]>>}

\* C17: after the bootstrap and after every bisection the live subintervals
\* tile [min(a,b), max(a,b)] without gap or overlap, and a bisection swaps
\* one of them for its two halves.
C17_Partition == [](C17_Tiling) /\ [][C17_Bisects]_vars

\* a call with a > b has cut its range into one half and two quarters
C17_Witness ==
    \E fr \in Seeded :
       /\ fr.arg_a > fr.arg_b
       /\ Live(WsOf(fr)) =
             {<<0, Width \div 2>>, <<Width \div 2, 3 * (Width \div 4)>>,
              <<3 * (Width \div 4), Width>>}

====
